---- MODULE Spec2Model ----
(***************************************************************************)
(* The SuperStore KPI dashboard (src/app.py): a Streamlit script that is   *)
(* executed top to bottom on the first page load and again after every     *)
(* widget interaction.  One action of this module is one execution of the  *)
(* whole script: the widget values of the session go in, the script's      *)
(* globals (option lists, selections, KPI totals, date bounds, the daily   *)
(* series and the top products table) come out.                            *)
(*                                                                         *)
(* Data.  A data frame is a sequence of rows, a row a record of the nine   *)
(* columns the script reads.  Categorical values are integer codes whose   *)
(* order is the order of the strings they stand for; NaN is the missing    *)
(* value.  Order Date is a day written yyyymmdd, so that integer order is   *)
(* date order.  Sales, Quantity and Profit are integers (currency in whole *)
(* units); a ratio of two of them is a reduced fraction, or nan / inf where *)
(* the float division of the data library gives these.                     *)
(*                                                                         *)
(* Widgets.  No widget of the script has a key, so Streamlit identifies a  *)
(* widget by its label and arguments: called with the arguments of the     *)
(* previous run it returns the session's value, called with other          *)
(* arguments (another option list, other slider bounds) it is a new widget *)
(* and returns its default.                                                *)
(***************************************************************************)
EXTENDS Integers, Sequences, FiniteSets, TLC

\* ---------------------------------------------------------------- bounds

\* Rows of a file of the general family.
MaxRows == 2
\* The order dates of the files lie in Date(1) .. Date(MaxDate).
MaxDate == 3
\* Rows (one per product) of a file of the product family.
MaxProducts == 11

\* ------------------------------------------------------- program constants

\* The missing value of a column (what dropna drops).
NaN == 0
\* The "All" entry that heads every option list.
All == -1
\* head(10)
TopN == 10
\* datetime(2020, 1, 1) and datetime(2020, 12, 31)
DefaultMinDate == 20200101
DefaultMaxDate == 20201231

kpi_options == <<"Sales", "Quantity", "Profit", "Margin Rate">>

\* ---------------------------------------------------------------- helpers

Range(s) == {s[i] : i \in 1..Len(s)}

MinOf(a, b) == IF a <= b THEN a ELSE b

Abs(x) == IF x < 0 THEN -x ELSE x

RECURSIVE Gcd(_, _)
Gcd(a, b) == IF b = 0 THEN a ELSE Gcd(b, a % b)

\* A float: a finite value n/d in lowest terms with d > 0, or nan, or +-inf.
Num(n, d) ==
    LET g == Gcd(Abs(n), Abs(d))
        s == IF d < 0 THEN -1 ELSE 1
    IN  [kind |-> "num", n |-> (s * n) \div g, d |-> (s * d) \div g]

\* The literal 0.
Zero == [kind |-> "num", n |-> 0, d |-> 1]

\* Series / Series of the data library (float division): x/0 is nan for
\* x = 0 and +-inf otherwise, and nothing is raised.
SeriesDiv(p, s) ==
    IF s # 0 THEN Num(p, s)
    ELSE IF p = 0 THEN [kind |-> "nan", n |-> 0, d |-> 0]
    ELSE [kind |-> "inf", n |-> (IF p < 0 THEN -1 ELSE 1), d |-> 0]

\* scalar / scalar.  The sums are numpy scalars (nan or inf on a zero
\* denominator) or, for an empty object column, Python ints (an exception):
\* either way not a number.
ScalarDiv(p, s) ==
    IF s # 0 THEN Num(p, s) ELSE [kind |-> "undefined", n |-> p, d |-> 0]

\* -------------------------------------------------------------- load_data

\* pd.to_datetime of a date read as text, <<year, month, day>>.
ToDatetime(t) == t[1] * 10000 + t[2] * 100 + t[3]

\* The frame read from the spreadsheet, Order Date converted when the column
\* did not come typed as datetime.
ReadExcel(f) ==
    IF f.dtype # "datetime64"
    THEN [i \in 1..Len(f.rows) |->
            [f.rows[i] EXCEPT !.OrderDate = ToDatetime(f.rows[i].OrderDate)]]
    ELSE f.rows

\* st.cache_data: the first call runs the function, later calls return the
\* stored frame.
LoadData(c, f) == IF c.loaded THEN c.value ELSE ReadExcel(f)

\* ------------------------------------------------------ cascading filters

Column(d, col) == [i \in 1..Len(d) |-> d[i][col]]

RECURSIVE DropNa(_)
DropNa(s) ==
    IF s = <<>> THEN <<>>
    ELSE IF Head(s) = NaN THEN DropNa(Tail(s))
    ELSE <<Head(s)>> \o DropNa(Tail(s))

\* unique(): the distinct values in order of first appearance.
RECURSIVE Unique(_)
Unique(s) ==
    IF s = <<>> THEN <<>>
    ELSE LET u == Unique(SubSeq(s, 1, Len(s) - 1))
             x == s[Len(s)]
         IN  IF x \in Range(u) THEN u ELSE Append(u, x)

RECURSIVE InsertAsc(_, _)
InsertAsc(s, x) ==
    IF s = <<>> THEN <<x>>
    ELSE IF x < Head(s) THEN <<x>> \o s
    ELSE <<Head(s)>> \o InsertAsc(Tail(s), x)

\* sorted(list)
RECURSIVE Sorted(_)
Sorted(s) ==
    IF s = <<>> THEN <<>>
    ELSE InsertAsc(Sorted(SubSeq(s, 1, Len(s) - 1)), s[Len(s)])

\* sorted(df[col].dropna().unique().tolist())
Options(d, col) == Sorted(Unique(DropNa(Column(d, col))))

\* df[df[col] == v]
RECURSIVE FilterEq(_, _, _)
FilterEq(d, col, v) ==
    IF d = <<>> THEN <<>>
    ELSE IF Head(d)[col] = v THEN <<Head(d)>> \o FilterEq(Tail(d), col, v)
    ELSE FilterEq(Tail(d), col, v)

\* Variant: the filtered frame is not bound back to df.
ApplyFilterNotRebound(d, col, v) == d

\* if selected != "All": df = df[df[col] == selected]
ApplyFilter(d, col, v) == IF v # All THEN FilterEq(d, col, v) ELSE d

\* st.selectbox(label, options): w is the widget of the session, [opts, val].
Selectbox(w, options) == IF w.opts = options THEN w.val ELSE options[1]

\* ---------------------------------------------------------------- KPI tiles

\* Variant: the sum misses the first row of the frame.
RECURSIVE ColumnSumSkipsFirst(_, _)
ColumnSumSkipsFirst(d, col) ==
    IF Len(d) <= 1 THEN 0 ELSE d[Len(d)][col] + ColumnSumSkipsFirst(SubSeq(d, 1, Len(d) - 1), col)

\* df[col].sum(): 0 for an empty frame.
RECURSIVE ColumnSum(_, _)
ColumnSum(d, col) ==
    IF d = <<>> THEN 0 ELSE Head(d)[col] + ColumnSum(Tail(d), col)

\* Variant: the division without its guard.
MarginRateUnguarded(profit, sales) == ScalarDiv(profit, sales)

\* total_profit / total_sales if total_sales != 0 else 0
MarginRate(profit, sales) == IF sales # 0 THEN ScalarDiv(profit, sales) ELSE Zero

\* ------------------------------------------------------------- date slider

RECURSIVE SeqMin(_)
SeqMin(s) == IF Len(s) = 1 THEN s[1] ELSE MinOf(s[1], SeqMin(Tail(s)))

RECURSIVE SeqMax(_)
SeqMax(s) ==
    IF Len(s) = 1 THEN s[1]
    ELSE LET m == SeqMax(Tail(s)) IN IF s[1] >= m THEN s[1] ELSE m

\* Variant: the fallback interval with its ends exchanged.
DateBoundsFallbackSwapped(d) ==
    IF d # <<>>
    THEN <<SeqMin(Column(d, "OrderDate")), SeqMax(Column(d, "OrderDate"))>>
    ELSE <<DefaultMaxDate, DefaultMinDate>>

\* <<min_date, max_date>>
DateBounds(d) ==
    IF d # <<>>
    THEN <<SeqMin(Column(d, "OrderDate")), SeqMax(Column(d, "OrderDate"))>>
    ELSE <<DefaultMinDate, DefaultMaxDate>>

\* Variant: a slider that keeps the session's value when its bounds change
\* (a widget with a key).
SliderKeepsValue(w, lo, hi) == IF w.max = 0 THEN <<lo, hi>> ELSE w.val

\* st.slider(min_value, max_value, value=(min_value, max_value)): w is the
\* widget of the session, [min, max, val].
Slider(w, lo, hi) == IF w.min = lo /\ w.max = hi THEN w.val ELSE <<lo, hi>>

\* df[(df["Order Date"] >= a) & (df["Order Date"] <= b)]
RECURSIVE Between(_, _, _)
Between(d, a, b) ==
    IF d = <<>> THEN <<>>
    ELSE IF Head(d).OrderDate >= a /\ Head(d).OrderDate <= b
    THEN <<Head(d)>> \o Between(Tail(d), a, b)
    ELSE Between(Tail(d), a, b)

\* st.radio(label, options): w is the session's value, "" when there is none.
Radio(w, options) == IF w \in Range(options) THEN w ELSE options[1]

\* ------------------------------------------------------------ aggregations

\* Variant: groupby(col, sort=False), the keys in order of first appearance.
GroupKeysUnsorted(d, col) == Unique(DropNa(Column(d, col)))

\* The group keys of groupby(col): the non-missing values, sorted.
GroupKeys(d, col) == Sorted(Unique(DropNa(Column(d, col))))

\* groupby("Order Date").agg(sum of Sales, Quantity, Profit).reset_index(),
\* then Margin Rate = Profit / Sales.
DailyGrouped(d) ==
    IF d # <<>>
    THEN LET keys == GroupKeys(d, "OrderDate")
         IN  [i \in 1..Len(keys) |->
                LET g == FilterEq(d, "OrderDate", keys[i])
                IN  [OrderDate |-> keys[i],
                     Sales |-> ColumnSum(g, "Sales"),
                     Quantity |-> ColumnSum(g, "Quantity"),
                     Profit |-> ColumnSum(g, "Profit"),
                     MarginRate |-> SeriesDiv(ColumnSum(g, "Profit"),
                                              ColumnSum(g, "Sales"))]]
    ELSE <<>>

\* Variant: the Quantity column summed in place of Sales.
ProductSumsOfQuantity(d) ==
    LET keys == GroupKeys(d, "ProductName")
    IN  [i \in 1..Len(keys) |->
            [ProductName |-> keys[i],
             Sales |-> ColumnSum(FilterEq(d, "ProductName", keys[i]), "Quantity")]]

\* groupby("Product Name")["Sales"].sum().reset_index()
ProductSums(d) ==
    LET keys == GroupKeys(d, "ProductName")
    IN  [i \in 1..Len(keys) |->
            [ProductName |-> keys[i],
             Sales |-> ColumnSum(FilterEq(d, "ProductName", keys[i]), "Sales")]]

RECURSIVE InsertDesc(_, _)
InsertDesc(s, x) ==
    IF s = <<>> THEN <<x>>
    ELSE IF Head(s).Sales >= x.Sales THEN <<Head(s)>> \o InsertDesc(Tail(s), x)
    ELSE <<x>> \o s

\* Variant: the table left in group order.
SortValuesMissing(s) == s

\* sort_values(by="Sales", ascending=False): equal Sales keep their order.
RECURSIVE SortValuesDesc(_)
SortValuesDesc(s) ==
    IF s = <<>> THEN <<>>
    ELSE InsertDesc(SortValuesDesc(SubSeq(s, 1, Len(s) - 1)), s[Len(s)])

\* head(n)
HeadN(s, n) == SubSeq(s, 1, MinOf(n, Len(s)))

TopProducts(d) ==
    IF d # <<>> THEN HeadN(SortValuesDesc(ProductSums(d)), TopN) ELSE <<>>

\* Variant: the filters narrow the cached frame itself.
CachedFilteredInPlace(base, d) == d

\* Every filter rebinds df to a new frame; the frame the cache holds is the
\* one load_data returned.
Cached(base, d) == base

\* ------------------------------------------------------------- the script

\* The session before the first run: no widget has a value.
NoSession ==
    [region |-> [opts |-> <<>>, val |-> All],
     state |-> [opts |-> <<>>, val |-> All],
     category |-> [opts |-> <<>>, val |-> All],
     subcat |-> [opts |-> <<>>, val |-> All],
     slider |-> [min |-> 0, max |-> 0, val |-> <<0, 0>>],
     kpi |-> ""]

\* One execution of app.py on the frame `base` with the widget values `w`.
Script(base, w) ==
    LET regions_ == Options(base, "Region")
        sel_region == Selectbox(w.region, <<All>> \o regions_)
        df1 == ApplyFilter(base, "Region", sel_region)
        states_ == Options(df1, "State")
        sel_state == Selectbox(w.state, <<All>> \o states_)
        df2 == ApplyFilter(df1, "State", sel_state)
        categories_ == Options(df2, "Category")
        sel_category == Selectbox(w.category, <<All>> \o categories_)
        df3 == ApplyFilter(df2, "Category", sel_category)
        subcats_ == Options(df3, "SubCategory")
        sel_subcat == Selectbox(w.subcat, <<All>> \o subcats_)
        df4 == ApplyFilter(df3, "SubCategory", sel_subcat)
        sales == ColumnSum(df4, "Sales")
        quantity == ColumnSum(df4, "Quantity")
        profit == ColumnSum(df4, "Profit")
        bounds == DateBounds(df4)
        range == Slider(w.slider, bounds[1], bounds[2])
        dtf == Between(df4, range[1], range[2])
    IN  [cached |-> Cached(base, df4),
         regions |-> regions_, selected_region |-> sel_region,
         states |-> states_, selected_state |-> sel_state,
         categories |-> categories_, selected_category |-> sel_category,
         subcats |-> subcats_, selected_subcat |-> sel_subcat,
         df |-> df4,
         total_sales |-> sales, total_quantity |-> quantity,
         total_profit |-> profit, margin_rate |-> MarginRate(profit, sales),
         min_date |-> bounds[1], max_date |-> bounds[2], date_range |-> range,
         df_time_filtered |-> dtf,
         selected_kpi |-> Radio(w.kpi, kpi_options),
         daily_grouped |-> DailyGrouped(dtf),
         product_sales |-> TopProducts(dtf)]

\* ------------------------------------------------------------------ files

\* Day i of January 2023.
Date(i) == 20230100 + i

Row(d, rg, st, cat, sub, p, m) ==
    [OrderDate |-> d, Region |-> rg, State |-> st, Category |-> cat,
     SubCategory |-> sub, ProductName |-> p,
     Sales |-> m[1], Quantity |-> m[2], Profit |-> m[3]]

\* <<Sales, Quantity, Profit>> of a row.
Metrics == {<<100, 2, 20>>, <<50, 1, -5>>, <<0, 3, -5>>}

\* <<Region, Product Name>> of a row of the general family.
Groups == {<<1, 2>>, <<2, 1>>}

SeqsUpTo(S, n) == UNION {[1..k -> S] : k \in 0..n}

\* General family: up to MaxRows rows that differ in date (the first or the
\* last day), region, product and metrics (the other columns are missing).
\* The empty file is one.
GeneralRows ==
    {Row(Date(d), g[1], NaN, NaN, NaN, g[2], m) :
        d \in {1, MaxDate}, g \in Groups, m \in Metrics}

GeneralFiles ==
    {[dtype |-> "datetime64", rows |-> r] : r \in SeqsUpTo(GeneralRows, MaxRows)}

\* Cascade family: two rows on one date whose four filter columns differ,
\* repeat or are missing.
Codes == {NaN, 1, 2}

CascadeFiles ==
    {[dtype |-> "datetime64",
      rows |-> <<Row(Date(1), 2, 2, 2, 2, 1, <<100, 2, 20>>),
                 Row(Date(1), rg, st, cat, sub, 2, <<50, 1, -5>>)>>] :
        rg \in Codes, st \in Codes, cat \in Codes, sub \in Codes}

\* Product family: MaxProducts rows, one per product, in descending product
\* order.  The rows a..b sell little, each a different amount; the others
\* sell much, with equal amounts among them.
ProductFiles ==
    {[dtype |-> "datetime64",
      rows |-> [i \in 1..MaxProducts |->
                  Row(Date(1), NaN, NaN, NaN, NaN, MaxProducts + 1 - i,
                      <<(IF a <= i /\ i <= b THEN 10 * i ELSE 500 + 10 * (i % 3)),
                        1, 20>>)]] :
        a \in 1..MaxProducts, b \in 0..MaxProducts}

\* Text family: Order Date read as text, to be converted by load_data.
TextFiles ==
    {[dtype |-> "object",
      rows |-> <<Row(<<2023, 1, a>>, 1, NaN, NaN, NaN, 1, <<100, 2, 20>>),
                 Row(<<2023, 1, b>>, 2, NaN, NaN, NaN, 2, <<50, 1, -5>>),
                 Row(<<2023, 1, c>>, 1, NaN, NaN, NaN, 2, <<50, 3, 20>>)>>] :
        a \in 1..MaxDate, b \in 1..MaxDate, c \in 1..MaxDate}

Files == GeneralFiles \cup CascadeFiles \cup ProductFiles \cup TextFiles

\* The dates a user drags the slider to.
PickDates ==
    {Date(i) : i \in 1..MaxDate} \cup {DefaultMinDate, DefaultMaxDate}

\* ------------------------------------------------------------------ state

VARIABLES
    file,               \* the spreadsheet on disk
    cache,              \* st.cache_data's entry for load_data
    ran,                \* the script has run at least once
    regions, selected_region,
    states, selected_state,
    categories, selected_category,
    subcats, selected_subcat,
    df,                 \* df after the four categorical filters
    total_sales, total_quantity, total_profit, margin_rate,
    min_date, max_date, date_range,
    df_time_filtered,
    selected_kpi,
    daily_grouped,
    product_sales,
    first,              \* history: what the first run produced
    strayed             \* history: a later run had other selections

vars == <<file, cache, ran, regions, selected_region, states, selected_state,
          categories, selected_category, subcats, selected_subcat, df,
          total_sales, total_quantity, total_profit, margin_rate,
          min_date, max_date, date_range, df_time_filtered, selected_kpi,
          daily_grouped, product_sales, first, strayed>>

\* The widget values the session holds after a run.
Session ==
    [region |-> [opts |-> <<All>> \o regions, val |-> selected_region],
     state |-> [opts |-> <<All>> \o states, val |-> selected_state],
     category |-> [opts |-> <<All>> \o categories, val |-> selected_category],
     subcat |-> [opts |-> <<All>> \o subcats, val |-> selected_subcat],
     slider |-> [min |-> min_date, max |-> max_date, val |-> date_range],
     kpi |-> selected_kpi]

\* What a run shows: the script's globals.
Page ==
    [cached |-> cache.value,
     regions |-> regions, selected_region |-> selected_region,
     states |-> states, selected_state |-> selected_state,
     categories |-> categories, selected_category |-> selected_category,
     subcats |-> subcats, selected_subcat |-> selected_subcat,
     df |-> df,
     total_sales |-> total_sales, total_quantity |-> total_quantity,
     total_profit |-> total_profit, margin_rate |-> margin_rate,
     min_date |-> min_date, max_date |-> max_date, date_range |-> date_range,
     df_time_filtered |-> df_time_filtered,
     selected_kpi |-> selected_kpi,
     daily_grouped |-> daily_grouped,
     product_sales |-> product_sales]

\* The selections of a page.
Selections(p) ==
    <<p.selected_region, p.selected_state, p.selected_category,
      p.selected_subcat, p.date_range, p.selected_kpi>>

Init ==
    /\ file \in Files
    /\ cache = [loaded |-> FALSE, value |-> <<>>]
    /\ ran = FALSE
    /\ regions = <<>> /\ selected_region = All
    /\ states = <<>> /\ selected_state = All
    /\ categories = <<>> /\ selected_category = All
    /\ subcats = <<>> /\ selected_subcat = All
    /\ df = <<>>
    /\ total_sales = 0 /\ total_quantity = 0 /\ total_profit = 0
    /\ margin_rate = Zero
    /\ min_date = 0 /\ max_date = 0 /\ date_range = <<0, 0>>
    /\ df_time_filtered = <<>>
    /\ selected_kpi = ""
    /\ daily_grouped = <<>>
    /\ product_sales = <<>>
    /\ first = [ran |-> FALSE]
    /\ strayed = FALSE

\* The script runs to its end with the widget values w.
Run(w) ==
    \E r \in {Script(LoadData(cache, file), w)} :
        /\ cache' = [loaded |-> TRUE, value |-> r.cached]
        /\ ran' = TRUE
        /\ regions' = r.regions /\ selected_region' = r.selected_region
        /\ states' = r.states /\ selected_state' = r.selected_state
        /\ categories' = r.categories
        /\ selected_category' = r.selected_category
        /\ subcats' = r.subcats /\ selected_subcat' = r.selected_subcat
        /\ df' = r.df
        /\ total_sales' = r.total_sales
        /\ total_quantity' = r.total_quantity
        /\ total_profit' = r.total_profit
        /\ margin_rate' = r.margin_rate
        /\ min_date' = r.min_date /\ max_date' = r.max_date
        /\ date_range' = r.date_range
        /\ df_time_filtered' = r.df_time_filtered
        /\ selected_kpi' = r.selected_kpi
        /\ daily_grouped' = r.daily_grouped
        /\ product_sales' = r.product_sales
        /\ first' = IF first.ran THEN first ELSE [ran |-> TRUE, page |-> r]
        /\ strayed' = (strayed \/ (first.ran /\ Selections(r) # Selections(first.page)))
        /\ file' = file

\* The page is opened.
FirstRun == ~ran /\ Run(NoSession)

\* The page is run again with nothing changed.
Rerun == ran /\ Run(Session)

ChangeRegion(v) ==
    /\ ran
    /\ v \in Range(<<All>> \o regions) /\ v # selected_region
    /\ Run([Session EXCEPT !.region.val = v])

ChangeState(v) ==
    /\ ran
    /\ v \in Range(<<All>> \o states) /\ v # selected_state
    /\ Run([Session EXCEPT !.state.val = v])

ChangeCategory(v) ==
    /\ ran
    /\ v \in Range(<<All>> \o categories) /\ v # selected_category
    /\ Run([Session EXCEPT !.category.val = v])

ChangeSubcat(v) ==
    /\ ran
    /\ v \in Range(<<All>> \o subcats) /\ v # selected_subcat
    /\ Run([Session EXCEPT !.subcat.val = v])

ChangeDateRange(a, b) ==
    /\ ran
    /\ min_date <= a /\ a <= b /\ b <= max_date
    /\ <<a, b>> # date_range
    /\ Run([Session EXCEPT !.slider.val = <<a, b>>])

ChangeKpi(k) ==
    /\ ran
    /\ k # selected_kpi
    /\ Run([Session EXCEPT !.kpi = k])

Next ==
    \/ FirstRun
    \/ Rerun
    \/ \E v \in Codes \cup {All} : ChangeRegion(v)
    \/ \E v \in Codes \cup {All} : ChangeState(v)
    \/ \E v \in Codes \cup {All} : ChangeCategory(v)
    \/ \E v \in Codes \cup {All} : ChangeSubcat(v)
    \/ \E a \in PickDates, b \in PickDates : ChangeDateRange(a, b)
    \/ \E k \in Range(kpi_options) : ChangeKpi(k)

Spec == Init /\ [][Next]_vars

\* ================================================================= claims

\* The sum of column col over the rows of d whose index is in I.
RECURSIVE SumSet(_, _, _)
SumSet(d, I, col) ==
    IF I = {} THEN 0
    ELSE LET i == CHOOSE j \in I : TRUE
         IN  d[i][col] + SumSet(d, I \ {i}, col)

RECURSIVE SumField(_, _)
SumField(s, col) ==
    IF s = <<>> THEN 0 ELSE Head(s)[col] + SumField(Tail(s), col)

Rows(d) == 1..Len(d)

FilterColumns == <<"Region", "State", "Category", "SubCategory">>

Selected ==
    <<selected_region, selected_state, selected_category, selected_subcat>>

\* The rows of the cached frame that satisfy the non-"All" selections of the
\* first k filters of the chain.
Matching(k) ==
    {i \in Rows(cache.value) :
        \A j \in 1..k :
            Selected[j] = All \/ cache.value[i][FilterColumns[j]] = Selected[j]}

\* The rows of df_time_filtered that carry value v in column col.
Of(col, v) == {i \in Rows(df_time_filtered) : df_time_filtered[i][col] = v}

Present(col) ==
    {df_time_filtered[i][col] : i \in Rows(df_time_filtered)} \ {NaN}

\* The value of a float equals p / s.
IsRatio(x, p, s) == x.kind = "num" /\ x.d > 0 /\ x.n * s = p * x.d

\* ----------------------------------------------------------------- C1

\* C1 as stated: the KPI totals are the column sums over the rows the daily
\* series and the top products table are built from (the four categorical
\* filters and the date interval applied), so total Sales is the sum of
\* Sales over the daily series.
C1_TotalsOverDateFilteredRows ==
    ran =>
        /\ total_sales = SumSet(df_time_filtered, Rows(df_time_filtered), "Sales")
        /\ total_quantity =
              SumSet(df_time_filtered, Rows(df_time_filtered), "Quantity")
        /\ total_profit =
              SumSet(df_time_filtered, Rows(df_time_filtered), "Profit")
        /\ total_sales = SumField(daily_grouped, "Sales")

\* C1 amended: the KPI totals are the column sums over the rows that satisfy
\* the four categorical selections, the date interval not applied; they are
\* the sums over the daily series whenever the date interval keeps every one
\* of those rows.
C1_TotalsOverCategoricalRows ==
    ran =>
        /\ total_sales = SumSet(cache.value, Matching(4), "Sales")
        /\ total_quantity = SumSet(cache.value, Matching(4), "Quantity")
        /\ total_profit = SumSet(cache.value, Matching(4), "Profit")
        /\ Len(df_time_filtered) = Cardinality(Matching(4)) =>
              /\ total_sales = SumField(daily_grouped, "Sales")
              /\ total_quantity = SumField(daily_grouped, "Quantity")
              /\ total_profit = SumField(daily_grouped, "Profit")

\* A region is selected and the date interval drops rows that count in the
\* totals.
C1_Witness ==
    /\ ran
    /\ selected_region # All
    /\ Len(df_time_filtered) < Len(df)
    /\ df_time_filtered # <<>>
    /\ total_sales # SumField(daily_grouped, "Sales")

\* ----------------------------------------------------------------- C2

\* C2: the Margin Rate of the totals is a defined number: 0 when total Sales
\* is 0, total Profit / total Sales otherwise.
C2_TotalMarginRate ==
    ran =>
        /\ margin_rate.kind = "num"
        /\ total_sales = 0 => margin_rate = Zero
        /\ total_sales # 0 => IsRatio(margin_rate, total_profit, total_sales)

\* Total Sales is 0 while total Profit is not.
C2_Witness == ran /\ df # <<>> /\ total_sales = 0 /\ total_profit # 0

\* ----------------------------------------------------------------- C3

\* opts is the ascending, duplicate-free list of the non-missing values of
\* column col among the rows I of the cached frame.
IsOptionList(opts, I, col) ==
    /\ \A i \in 1..(Len(opts) - 1) : opts[i] < opts[i + 1]
    /\ Range(opts) = {cache.value[i][col] : i \in I} \ {NaN}

\* C3: the option list of each filter of the chain Region, State, Category,
\* Sub-Category is the ascending, duplicate-free list of the non-missing
\* values of its column among the rows that satisfy the non-"All" selections
\* of the filters before it.
C3_CascadingOptions ==
    ran =>
        /\ IsOptionList(regions, Matching(0), "Region")
        /\ IsOptionList(states, Matching(1), "State")
        /\ IsOptionList(categories, Matching(2), "Category")
        /\ IsOptionList(subcats, Matching(3), "SubCategory")
        /\ selected_region \in {All} \cup Range(regions)
        /\ selected_state \in {All} \cup Range(states)
        /\ selected_category \in {All} \cup Range(categories)
        /\ selected_subcat \in {All} \cup Range(subcats)

\* Three filters are set and each later option list is shorter than the
\* list of the whole file.
C3_Witness ==
    /\ ran
    /\ selected_region # All /\ selected_state # All /\ selected_category # All
    /\ Range(states) # {cache.value[i].State : i \in Rows(cache.value)} \ {NaN}
    /\ Range(categories) #
          {cache.value[i].Category : i \in Rows(cache.value)} \ {NaN}
    /\ Range(subcats) #
          {cache.value[i].SubCategory : i \in Rows(cache.value)} \ {NaN}

\* ----------------------------------------------------------------- C4

\* The products of the table.
Returned == {product_sales[i].ProductName : i \in 1..Len(product_sales)}

\* The table holds one row per product, each with the product's summed
\* Sales, in descending order of Sales, and no product left out has more
\* Sales than one in the table.
TopBySales ==
    /\ Len(product_sales) = MinOf(TopN, Cardinality(Present("ProductName")))
    /\ Cardinality(Returned) = Len(product_sales)
    /\ \A i \in 1..Len(product_sales) :
          /\ product_sales[i].ProductName \in Present("ProductName")
          /\ product_sales[i].Sales =
                SumSet(df_time_filtered,
                       Of("ProductName", product_sales[i].ProductName), "Sales")
    /\ \A i \in 1..(Len(product_sales) - 1) :
          product_sales[i].Sales >= product_sales[i + 1].Sales
    /\ \A i \in 1..Len(product_sales) :
          \A q \in Present("ProductName") \ Returned :
              product_sales[i].Sales >=
                 SumSet(df_time_filtered, Of("ProductName", q), "Sales")

\* C4: the top-10-by-Sales table has min(10, number of products) rows, one
\* per product with its summed Sales, in descending order of Sales, and every
\* product in it has at least the Sales of every product left out.
C4_TopTenBySales == ran => TopBySales

\* More than ten products, of unequal Sales, one of the larger ones last in
\* the file.
C4_Witness ==
    /\ ran
    /\ Cardinality(Present("ProductName")) > TopN
    /\ Len(product_sales) = TopN
    /\ product_sales[1].Sales > product_sales[TopN].Sales
    /\ \E q \in Present("ProductName") \ Returned :
          SumSet(df_time_filtered, Of("ProductName", q), "Sales")
             < product_sales[1].Sales

\* ----------------------------------------------------------------- C5

\* The column a KPI is summed from.
KpiColumn(k) ==
    CASE k = "Sales" -> "Sales"
      [] k = "Quantity" -> "Quantity"
      [] k = "Profit" -> "Profit"

\* Product p has at least the value of product q in the selected KPI.
KpiAtLeast(k, p, q) ==
    LET sp == SumSet(df_time_filtered, Of("ProductName", p), "Sales")
        sq == SumSet(df_time_filtered, Of("ProductName", q), "Sales")
        pp == SumSet(df_time_filtered, Of("ProductName", p), "Profit")
        pq == SumSet(df_time_filtered, Of("ProductName", q), "Profit")
    IN  IF k = "Margin Rate"
        THEN (sp > 0 /\ sq > 0) => pp * sq >= pq * sp
        ELSE SumSet(df_time_filtered, Of("ProductName", p), KpiColumn(k))
                >= SumSet(df_time_filtered, Of("ProductName", q), KpiColumn(k))

\* C5 as stated: the products of the table are those with the largest value
\* of the selected KPI, in descending order of that KPI.
C5_TopTenBySelectedKpi ==
    ran =>
        /\ \A i \in 1..(Len(product_sales) - 1) :
              KpiAtLeast(selected_kpi, product_sales[i].ProductName,
                         product_sales[i + 1].ProductName)
        /\ \A p \in Returned : \A q \in Present("ProductName") \ Returned :
              KpiAtLeast(selected_kpi, p, q)

\* C5 amended: whichever KPI is selected, the table carries Product Name and
\* summed Sales only, and holds the (at most 10) products with the largest
\* summed Sales in descending order of Sales.
C5_TopTenBySalesWhateverKpi ==
    (ran /\ selected_kpi # "Sales") =>
        /\ \A i \in 1..Len(product_sales) :
              DOMAIN product_sales[i] = {"ProductName", "Sales"}
        /\ TopBySales

\* Quantity is selected and the table's order is not the order of Quantity.
C5_Witness ==
    /\ ran
    /\ selected_kpi = "Quantity"
    /\ Len(product_sales) = 2
    /\ product_sales[1].Sales > product_sales[2].Sales
    /\ ~KpiAtLeast("Quantity", product_sales[1].ProductName,
                   product_sales[2].ProductName)

\* ----------------------------------------------------------------- C6

\* C6: with no row left after the categorical filters the totals and the
\* Margin Rate are 0, the date bounds are the default interval, and the
\* daily series and the top-10 list are empty; both are empty whenever no
\* row is left after the date filter.
C6_EmptyDataset ==
    ran =>
        /\ df = <<>> =>
              /\ total_sales = 0 /\ total_quantity = 0 /\ total_profit = 0
              /\ margin_rate = Zero
              /\ min_date = DefaultMinDate /\ max_date = DefaultMaxDate
              /\ min_date <= date_range[1] /\ date_range[1] <= date_range[2]
              /\ date_range[2] <= max_date
              /\ df_time_filtered = <<>>
        /\ df_time_filtered = <<>> =>
              daily_grouped = <<>> /\ product_sales = <<>>

\* A run on a frame without rows, the slider moved off its default.
C6_Witness ==
    ran /\ df = <<>> /\ date_range # <<min_date, max_date>>

\* ----------------------------------------------------------------- C7

\* C7: every row of the daily series has a defined Margin Rate: Profit /
\* Sales of the date when its Sales is not 0, and 0 when it is.
C7_DailyMarginRateDefined ==
    ran =>
        \A i \in 1..Len(daily_grouped) :
            /\ daily_grouped[i].MarginRate.kind = "num"
            /\ daily_grouped[i].Sales # 0 =>
                  IsRatio(daily_grouped[i].MarginRate, daily_grouped[i].Profit,
                          daily_grouped[i].Sales)
            /\ daily_grouped[i].Sales = 0 => daily_grouped[i].MarginRate = Zero

\* ----------------------------------------------------------------- C8

\* C8: the daily series of a non-empty filtered frame has one row per order
\* date of the frame, each with the sums of Sales, Quantity and Profit over
\* the rows of its date, in strictly ascending order of date.
C8_DailySeries ==
    (ran /\ df_time_filtered # <<>>) =>
        /\ {daily_grouped[i].OrderDate : i \in 1..Len(daily_grouped)}
              = Present("OrderDate")
        /\ \A i \in 1..(Len(daily_grouped) - 1) :
              daily_grouped[i].OrderDate < daily_grouped[i + 1].OrderDate
        /\ \A i \in 1..Len(daily_grouped) :
              LET g == Of("OrderDate", daily_grouped[i].OrderDate)
              IN  /\ daily_grouped[i].Sales = SumSet(df_time_filtered, g, "Sales")
                  /\ daily_grouped[i].Quantity =
                        SumSet(df_time_filtered, g, "Quantity")
                  /\ daily_grouped[i].Profit =
                        SumSet(df_time_filtered, g, "Profit")

\* Two dates, the later one first in the frame, and a date with two rows.
C8_Witness ==
    /\ ran
    /\ Len(daily_grouped) = 2
    /\ df_time_filtered[1].OrderDate > df_time_filtered[2].OrderDate
    /\ \E i \in 1..2 :
          Cardinality(Of("OrderDate", daily_grouped[i].OrderDate)) = 2

\* ----------------------------------------------------------------- C9

\* The rows of d with a <= Order Date <= b, in order.
InInterval(d, a, b) ==
    SelectSeq(d, LAMBDA r : a <= r.OrderDate /\ r.OrderDate <= b)

\* C9: the applied interval lies within the date bounds, the bounds are the
\* smallest and largest Order Date of the categorically filtered frame, the
\* date-filtered frame holds exactly the rows within the interval (ends
\* included), and the interval of the first run is the whole of the bounds
\* and drops no row.
C9_DateInterval ==
    ran =>
        /\ min_date <= date_range[1]
        /\ date_range[1] <= date_range[2]
        /\ date_range[2] <= max_date
        /\ df # <<>> =>
              /\ \A i \in Rows(df) :
                    min_date <= df[i].OrderDate /\ df[i].OrderDate <= max_date
              /\ \E i \in Rows(df) : df[i].OrderDate = min_date
              /\ \E i \in Rows(df) : df[i].OrderDate = max_date
        /\ df_time_filtered = InInterval(df, date_range[1], date_range[2])
        /\ first.page.date_range = <<first.page.min_date, first.page.max_date>>
        /\ first.page.df_time_filtered = first.page.df
        /\ date_range = <<min_date, max_date>> => df_time_filtered = df

\* A filter was set after the first run and the date span of the frame is
\* shorter than the first run's, on a page other than the first.
C9_Witness ==
    /\ ran
    /\ strayed
    /\ Selected # <<All, All, All, All>>
    /\ df # <<>>
    /\ max_date - min_date < first.page.max_date - first.page.min_date
    /\ first.page.date_range # <<min_date, max_date>>

\* ---------------------------------------------------------------- C10

\* C10: the cached frame stays the frame load_data read, the page of a run
\* is what the script yields on that frame for the run's selections, and a
\* run with the selections of the first run shows the first run's page,
\* whatever ran in between.
C10_BaseUntouched ==
    ran =>
        /\ cache.loaded
        /\ cache.value = ReadExcel(file)
        /\ cache.value = first.page.cached
        /\ Page = Script(ReadExcel(file), Session)
        /\ Selections(Page) = Selections(first.page) => Page = first.page

\* The first run's selections again, after runs with other selections.
C10_Witness ==
    /\ ran
    /\ strayed
    /\ df # <<>>
    /\ Selections(Page) = Selections(first.page)

====
